---- MODULE Spec2Model ----
(***************************************************************************)
(* Model of backend/app.py: the malaria analyzer's Flask application.      *)
(*                                                                         *)
(* Three specifications share the definitions below.                       *)
(*   AggSpec   analyze_malaria_pdf alone, the list returned by the         *)
(*             extractor being its input (any list of 0..MaxLen records);  *)
(*   Spec      the /api/health handler and one /api/analyze request, from  *)
(*             a directory that is empty or holds an earlier upload, with  *)
(*             the extraction stub of the source (1..5 images);            *)
(*   RaceSpec  two /api/analyze requests served by two workers, each       *)
(*             request's file.save split in open, write and close.         *)
(*                                                                         *)
(* Numbers: a confidence is an integer number of hundredths (0.85 is 85);  *)
(* a mean is the exact fraction [num, den]; floating-point rounding of     *)
(* sum/len is not modelled.  A filename is a sequence of one-character     *)
(* strings.  Python's None is the string "None".                           *)
(***************************************************************************)
EXTENDS Integers, Sequences, FiniteSets, TLC

VARIABLES
    store,          \* the upload directory: sanitized filename -> file content
    req,            \* Spec: the request the endpoint last received
    response,       \* Spec: the response the endpoint last sent
    calls,          \* Spec: the collaborators that request's handler called, in order
    health,         \* Spec: the last response of /api/health
    images,         \* AggSpec: analyze_malaria_pdf's local `images`
    image_results,  \* AggSpec: analyze_malaria_pdf's local `image_results`
    outcome,        \* what the last analyze_malaria_pdf call did: returned a value, or raised
    tpc,            \* RaceSpec: each worker's position in analyze_pdf
    treq,           \* RaceSpec: each worker's request
    tpos            \* RaceSpec: each worker's offset in the file it has open

vars == <<store, req, response, calls, health, images, image_results, outcome,
          tpc, treq, tpos>>

----------------------------------------------------------------------------
(* Bounds of the model *)

MaxLen == 3
MaxPayloadLen == 2
ChunkSize == 1

(* Constants of the program *)

MinImages == 1
MaxImages == 5
ConfLo == 70
ConfHi == 99
LabelThreshold == 30
NegativeConfidence == 85

None == "None"

Species == <<"P. falciparum", "P. vivax", "P. ovale", "P. malariae">>

ALLOWED_EXTENSIONS == { <<"p", "d", "f">> }

----------------------------------------------------------------------------
(* Sequences *)

RECURSIVE SumSeq(_)
SumSeq(s) == IF s = <<>> THEN 0 ELSE Head(s) + SumSeq(Tail(s))

Range(s) == { s[i] : i \in 1..Len(s) }

SeqsUpTo(S, n) == UNION { [1..k -> S] : k \in 0..n }

----------------------------------------------------------------------------
(* extract_images_from_pdf: range(random.randint(1, 5)) placeholder records *)

ImageList(n) == [i \in 1..n |-> [page |-> 0, index |-> i - 1, bytes |-> "placeholder"]]

(* Mutant: randint(0, 5) *)
ExtractCounts_from_zero == 0..MaxImages

ExtractCounts == MinImages..MaxImages

extract_images_from_pdf(n) == ImageList(n)

(* analyze_image_for_malaria: three independent draws.  A draw is           *)
(* [detected, u, choice, conf]: random.choice([True, False]); random.random()*)
(* in hundredths; the index random.choice picks among the species, which   *)
(* is only drawn when u > 0.3; random.uniform(0.7, 0.99) in hundredths.    *)

Confidences == {ConfLo, ConfHi}

Draws ==
    { [detected |-> d, u |-> LabelThreshold, choice |-> 1, conf |-> c] :
        d \in BOOLEAN, c \in Confidences }
    \cup
    { [detected |-> d, u |-> LabelThreshold + 1, choice |-> k, conf |-> c] :
        d \in BOOLEAN, k \in 1..Len(Species), c \in Confidences }

analyze_image_for_malaria(image_data, draw) ==
    [ parasite_detected |-> draw.detected,
      parasite_type     |-> IF draw.u > LabelThreshold THEN Species[draw.choice] ELSE None,
      confidence        |-> draw.conf ]

ClassifyAll(imgs, draws) ==
    [i \in 1..Len(imgs) |-> analyze_image_for_malaria(imgs[i].bytes, draws[i])]

----------------------------------------------------------------------------
(* analyze_malaria_pdf: the aggregation *)

IsDetected(r) == r.parasite_detected

IsDetectedWithType(r) == r.parasite_detected /\ r.parasite_type # None

positive_count(results) ==
    LET sel == SelectSeq(results, IsDetected)
    IN  SumSeq([i \in 1..Len(sel) |-> 1])

(* Mutant: the positives counted as the total *)
total_count_positive(results) == positive_count(results)

total_count(results) == Len(results)

(* Mutant: the labels of all records, detected or not *)
parasites_any(results) ==
    LET sel == SelectSeq(results, LAMBDA r : r.parasite_type # None)
    IN  [i \in 1..Len(sel) |-> sel[i].parasite_type]

parasites(results) ==
    LET sel == SelectSeq(results, IsDetectedWithType)
    IN  [i \in 1..Len(sel) |-> sel[i].parasite_type]

unique_parasites(results) == Range(parasites(results))

(* Mutant: the confidences of the detected records that carry a label *)
confidences_labelled(results) ==
    LET sel == SelectSeq(results, IsDetectedWithType)
    IN  [i \in 1..Len(sel) |-> sel[i].confidence]

confidences(results) ==
    LET sel == SelectSeq(results, IsDetected)
    IN  [i \in 1..Len(sel) |-> sel[i].confidence]

avg_confidence(results) ==
    LET cs == confidences(results)
    IN  IF cs # <<>> THEN [num |-> SumSeq(cs), den |-> Len(cs)]
                     ELSE [num |-> 0, den |-> 1]

InconclusiveResult ==
    [diagnosis |-> "Inconclusive", error |-> "No images found in PDF"]

PositiveResult(results) ==
    [ diagnosis          |-> "Positive",
      parasites_detected |-> unique_parasites(results),
      confidence         |-> avg_confidence(results),
      parasite_count     |-> positive_count(results),
      images_analyzed    |-> total_count(results) ]

(* Mutant: the mean, as in the Positive branch, in place of 0.85 *)
NegativeResult_avg(results) ==
    [ diagnosis       |-> "Negative",
      confidence      |-> avg_confidence(results),
      parasite_count  |-> 0,
      images_analyzed |-> total_count(results) ]

NegativeResult(results) ==
    [ diagnosis       |-> "Negative",
      confidence      |-> [num |-> NegativeConfidence, den |-> 1],
      parasite_count  |-> 0,
      images_analyzed |-> total_count(results) ]

Diagnose(results) ==
    IF positive_count(results) > 0 THEN PositiveResult(results)
                                   ELSE NegativeResult(results)

(* The stages of the try block, where an exception can be raised, and the  *)
(* texts it can carry.                                                     *)
Stages == {"extract", "classify", "aggregate"}

Messages == {"out of memory", ""}

Returned(value) == [raised |-> FALSE, msg |-> "", value |-> value]

Raised(msg) == [raised |-> TRUE, msg |-> msg, value |-> [diagnosis |-> "none"]]

NoOutcome == Returned([diagnosis |-> "none"])

(* Mutant: no check of the empty list *)
NoImages_never(imgs) == FALSE

NoImages(imgs) == imgs = <<>>

(* The value the call returns when nothing raises. *)
analyze_malaria_pdf(imgs, draws) ==
    IF NoImages(imgs) THEN Returned(InconclusiveResult)
    ELSE Returned(Diagnose(ClassifyAll(imgs, draws)))

(* except Exception as e: print(...); raise *)
analyze_malaria_pdf_raises(msg) == Raised(msg)

(* What a call that returns has called: the extractor, then the classifier *)
(* once for each image of a list that is not empty.                        *)
InnerCalls(imgs) ==
    <<"extract_images_from_pdf">> \o
    (IF NoImages(imgs) THEN <<>>
     ELSE [i \in 1..Len(imgs) |-> "analyze_image_for_malaria"])

(* What a call has called when `stage` raises. *)
CallsUntil(stage) ==
    IF stage = "extract" THEN <<"extract_images_from_pdf">>
    ELSE <<"extract_images_from_pdf", "analyze_image_for_malaria">>

----------------------------------------------------------------------------
(* Filenames: allowed_file, and werkzeug's secure_filename as the handler  *)
(* uses it.                                                                *)

Lower(c) ==
    CASE c = "P" -> "p" [] c = "D" -> "d" [] c = "F" -> "f"
      [] c = "E" -> "e" [] c = "X" -> "x" [] c = "R" -> "r"
      [] OTHER -> c

lower(s) == [i \in 1..Len(s) |-> Lower(s[i])]

Contains(s, c) == \E i \in 1..Len(s) : s[i] = c

(* filename.rsplit('.', 1)[1]: what follows the last dot *)
RECURSIVE rsplit1(_)
rsplit1(s) ==
    IF s[Len(s)] = "." THEN <<>>
    ELSE rsplit1(SubSeq(s, 1, Len(s) - 1)) \o <<s[Len(s)]>>

(* Mutant: the extension is not compared *)
allowed_file_any_dot(filename) == Contains(filename, ".")

allowed_file(filename) ==
    Contains(filename, ".") /\ lower(rsplit1(filename)) \in ALLOWED_EXTENSIONS

(* secure_filename: path separators become spaces; "_".join(name.split()); *)
(* characters outside [A-Za-z0-9_.-] are dropped; dots and underscores are *)
(* stripped from both ends.                                                *)
SafeChars == {"r", "p", "d", "f", "e", "x", "R", "P", "D", "F", "E", "X", ".", "_", "-"}

ReplaceSeps(s) == [i \in 1..Len(s) |-> IF s[i] = "/" THEN " " ELSE s[i]]

RECURSIVE JoinSplit(_, _, _)
JoinSplit(s, acc, gap) ==
    IF s = <<>> THEN acc
    ELSE IF Head(s) = " " THEN JoinSplit(Tail(s), acc, acc # <<>>)
    ELSE JoinSplit(Tail(s), (IF gap THEN acc \o <<"_">> ELSE acc) \o <<Head(s)>>, FALSE)

IsSafeChar(c) == c \in SafeChars

RECURSIVE StripEnds(_)
StripEnds(s) ==
    IF s = <<>> THEN s
    ELSE IF Head(s) \in {".", "_"} THEN StripEnds(Tail(s))
    ELSE IF s[Len(s)] \in {".", "_"} THEN StripEnds(SubSeq(s, 1, Len(s) - 1))
    ELSE s

secure_filename(filename) ==
    StripEnds(SelectSeq(JoinSplit(ReplaceSeps(filename), <<>>, FALSE), IsSafeChar))

----------------------------------------------------------------------------
(* Requests and responses *)

Filenames ==
    { <<>>,
      <<"r">>,
      <<"p", "d", "f">>,
      <<"r", ".">>,
      <<"r", ".", "e", "x", "e">>,
      <<"r", ".", "p", "d", "f", ".", "e", "x", "e">>,
      <<"r", ".", "p", "d", "f">>,
      <<"r", ".", "P", "d", "F">>,
      <<"/", "r", ".", "p", "d", "f">> }

Bytes == {"a", "b"}

Payloads == SeqsUpTo(Bytes, MaxPayloadLen)

NoFilePart == [hasFile |-> FALSE, filename |-> <<>>, payload |-> <<>>]

Upload(name, bytes) == [hasFile |-> TRUE, filename |-> name, payload |-> bytes]

Resp(status, body) == [status |-> status, body |-> body]

NoResponse == Resp(0, [error |-> ""])

ErrorResponse(status, text) == Resp(status, [error |-> text])

(* An exception that leaves the view function: the framework answers. *)
Unhandled(msg) == Resp(500, [unhandled |-> msg])

(* The file part is missing from request.files *)
NoFilePartCheck(r) == ~r.hasFile

(* Mutant: no check of the empty filename *)
NoFileSelectedCheck_never(r) == FALSE

(* file.filename == '' *)
NoFileSelectedCheck(r) == r.filename = <<>>

(* `file and allowed_file(file.filename)`: a FileStorage is true when its  *)
(* filename is not empty.                                                  *)
AcceptedCheck(r) == r.filename # <<>> /\ allowed_file(r.filename)

(* file.save(filepath), when no other request touches the file *)
Save(dir, filename, bytes) ==
    [f \in DOMAIN dir \cup {filename} |-> IF f = filename THEN bytes ELSE dir[f]]

(* Mutant: the except clause does not catch the exception *)
HandleOutcome_uncaught(o) ==
    IF o.raised THEN Unhandled(o.msg)
    ELSE Resp(200, [success |-> TRUE, results |-> o.value])

(* try: results = analyze_malaria_pdf(filepath) ... except Exception as e *)
HandleOutcome(o) ==
    IF o.raised THEN ErrorResponse(500, "Analysis failed: " \o o.msg)
    ELSE Resp(200, [success |-> TRUE, results |-> o.value])

EmptyDir == [f \in {} |-> <<>>]

----------------------------------------------------------------------------
(* AggSpec: analyze_malaria_pdf, the extractor's list being the input *)

AggInit ==
    /\ store = EmptyDir
    /\ req = NoFilePart
    /\ response = NoResponse
    /\ calls = <<>>
    /\ health = NoResponse
    /\ images = <<>>
    /\ image_results = <<>>
    /\ outcome = NoOutcome
    /\ tpc = <<"off", "off">>
    /\ treq = <<NoFilePart, NoFilePart>>
    /\ tpos = <<0, 0>>

AggUnchanged == UNCHANGED <<store, req, response, health, tpc, treq, tpos>>

(* The call returns. *)
AggReturn ==
    /\ outcome = NoOutcome
    /\ \E n \in 0..MaxLen :
        \E draws \in [1..n -> Draws] :
            LET imgs == ImageList(n) IN
            /\ images' = imgs
            /\ image_results' = IF NoImages(imgs) THEN <<>> ELSE ClassifyAll(imgs, draws)
            /\ calls' = InnerCalls(imgs)
            /\ outcome' = analyze_malaria_pdf(imgs, draws)
            /\ AggUnchanged

(* A stage of the call raises: the results classified so far are lost. *)
AggRaise ==
    /\ outcome = NoOutcome
    /\ \E n \in 1..MaxLen, stage \in Stages, msg \in Messages :
        /\ images' = IF stage = "extract" THEN <<>> ELSE ImageList(n)
        /\ image_results' = <<>>
        /\ calls' = CallsUntil(stage)
        /\ outcome' = analyze_malaria_pdf_raises(msg)
        /\ AggUnchanged

AggNext == AggReturn \/ AggRaise

AggSpec == AggInit /\ [][AggNext]_vars

----------------------------------------------------------------------------
(* Properties of analyze_malaria_pdf, checked under AggSpec.  They state   *)
(* the result in terms of the classified records, by index sets.           *)

AggReturned == ~outcome.raised /\ outcome.value.diagnosis # "none"

DetectedIdx == { i \in 1..Len(image_results) : image_results[i].parasite_detected }

LabelledIdx == { i \in 1..Len(image_results) : image_results[i].parasite_type # None }

RECURSIVE ConfSum(_)
ConfSum(S) ==
    IF S = {} THEN 0
    ELSE LET i == CHOOSE j \in S : TRUE
         IN  image_results[i].confidence + ConfSum(S \ {i})

SpeciesSet ==
    IF "parasites_detected" \in DOMAIN outcome.value
    THEN outcome.value.parasites_detected ELSE {}

(* C1: a list with k > 0 detected records gives Positive, parasite_count   *)
(* k, confidence the mean over exactly those k records, and as species set *)
(* the labels of those of the k records that carry one.                    *)
C1_PositiveAggregate ==
    (AggReturned /\ image_results # <<>> /\ DetectedIdx # {}) =>
        LET v == outcome.value
            k == Cardinality(DetectedIdx)
        IN  /\ v.diagnosis = "Positive"
            /\ v.parasite_count = k
            /\ v.confidence.den > 0
            /\ v.confidence.num * k = ConfSum(DetectedIdx) * v.confidence.den
            /\ v.parasites_detected =
                 { image_results[i].parasite_type : i \in DetectedIdx \cap LabelledIdx }

(* Two detected records of different confidence, one of them without a    *)
(* label, beside an undetected record.                                     *)
C1_Witness ==
    /\ AggReturned
    /\ outcome.value.diagnosis = "Positive"
    /\ \E i, j \in DetectedIdx :
          /\ image_results[i].confidence # image_results[j].confidence
          /\ i \notin LabelledIdx
          /\ j \in LabelledIdx
    /\ DetectedIdx # 1..Len(image_results)

(* C2: a list that is not empty and has no detected record gives Negative, *)
(* confidence 0.85, parasite_count 0 and images_analyzed the list's length,*)
(* whatever the records carry.                                             *)
C2_NegativeAggregate ==
    (AggReturned /\ image_results # <<>> /\ DetectedIdx = {}) =>
        LET v == outcome.value
        IN  /\ v.diagnosis = "Negative"
            /\ v.confidence.num * 100 = 85 * 100 * v.confidence.den
            /\ v.parasite_count = 0
            /\ v.images_analyzed = Len(images)
            /\ DOMAIN v = {"diagnosis", "confidence", "parasite_count", "images_analyzed"}

C2_Witness ==
    /\ AggReturned
    /\ outcome.value.diagnosis = "Negative"
    /\ Len(image_results) >= 2
    /\ LabelledIdx # {}
    /\ \E i, j \in 1..Len(image_results) :
          image_results[i].confidence # image_results[j].confidence

(* C3 as stated: in every branch, Inconclusive included, the result has    *)
(* images_analyzed, equal to the length of the list.                       *)
C3_AllBranches ==
    AggReturned =>
        /\ "images_analyzed" \in DOMAIN outcome.value
        /\ outcome.value.images_analyzed = Len(images)

(* C3 amended: the Positive and the Negative result have images_analyzed,  *)
(* equal to the length of the list; the Inconclusive result, returned for  *)
(* the empty list, has the keys diagnosis and error alone.                 *)
C3_CountedBranches ==
    AggReturned =>
        LET v == outcome.value
        IN  IF images = <<>>
            THEN v.diagnosis = "Inconclusive" /\ DOMAIN v = {"diagnosis", "error"}
            ELSE /\ v.diagnosis \in {"Positive", "Negative"}
                 /\ "images_analyzed" \in DOMAIN v
                 /\ v.images_analyzed = Len(images)
                 /\ v.images_analyzed = Len(image_results)

C3_Witness ==
    /\ AggReturned
    /\ outcome.value.diagnosis = "Positive"
    /\ outcome.value.images_analyzed > outcome.value.parasite_count
    /\ Len(images) >= 3

(* C4: every label of the species set is the label of a detected record;   *)
(* a label that only undetected records carry is not in it.                *)
C4_SpeciesFromDetected ==
    AggReturned =>
        /\ \A l \in SpeciesSet :
              l # None /\ \E i \in DetectedIdx : image_results[i].parasite_type = l
        /\ \A i \in LabelledIdx \ DetectedIdx :
              (\A j \in DetectedIdx :
                    image_results[j].parasite_type # image_results[i].parasite_type)
              => image_results[i].parasite_type \notin SpeciesSet

(* A Positive result with a species, and an undetected record whose label  *)
(* no detected record carries.                                             *)
C4_Witness ==
    /\ AggReturned
    /\ SpeciesSet # {}
    /\ \E i \in LabelledIdx \ DetectedIdx :
          \A j \in DetectedIdx :
              image_results[j].parasite_type # image_results[i].parasite_type

(* C9: the empty list gives Inconclusive with the note that no images were *)
(* found, and the classifier is not called.                                *)
C9_EmptyInconclusive ==
    (AggReturned /\ images = <<>>) =>
        /\ outcome.value.diagnosis = "Inconclusive"
        /\ outcome.value = [diagnosis |-> "Inconclusive", error |-> "No images found in PDF"]
        /\ image_results = <<>>
        /\ ~Contains(calls, "analyze_image_for_malaria")

C9_Witness ==
    /\ AggReturned
    /\ images = <<>>
    /\ outcome.value.diagnosis = "Inconclusive"
    /\ Contains(calls, "extract_images_from_pdf")

----------------------------------------------------------------------------
(* Spec: the endpoint layer, one request *)

Init ==
    /\ store \in {EmptyDir, Save(EmptyDir, <<"r", ".", "p", "d", "f">>, <<"b">>)}
    /\ req = NoFilePart
    /\ response = NoResponse
    /\ calls = <<>>
    /\ health = NoResponse
    /\ images = <<>>
    /\ image_results = <<>>
    /\ outcome = NoOutcome
    /\ tpc = <<"off", "off">>
    /\ treq = <<NoFilePart, NoFilePart>>
    /\ tpos = <<0, 0>>

Requests == {NoFilePart} \cup { Upload(name, bytes) : name \in Filenames, bytes \in Payloads }

(* The draws of the endpoint's runs: both verdicts, a label or none, one   *)
(* confidence.  The endpoint reads none of them; AggSpec covers them all.  *)
EndpointDraws == { d \in Draws : d.conf = ConfLo /\ d.choice <= 2 }

health_check ==
    /\ health' = Resp(200, [status |-> "ok", message |-> "Malaria analyzer API is running"])
    /\ UNCHANGED <<store, req, response, calls, images, image_results, outcome,
                   tpc, treq, tpos>>

Rejected(r, resp, called) ==
    /\ req' = r
    /\ response' = resp
    /\ calls' = called
    /\ UNCHANGED <<store, outcome>>

Analyzed(r, o, inner) ==
    /\ req' = r
    /\ store' = Save(store, secure_filename(r.filename), r.payload)
    /\ calls' = <<"allowed_file", "secure_filename", "save">> \o inner
    /\ outcome' = o
    /\ response' = HandleOutcome(o)

analyze_pdf ==
    /\ response = NoResponse
    /\ \E r \in Requests :
        IF NoFilePartCheck(r) THEN
            Rejected(r, ErrorResponse(400, "No file part"), <<>>)
        ELSE IF NoFileSelectedCheck(r) THEN
            Rejected(r, ErrorResponse(400, "No file selected"), <<>>)
        ELSE IF AcceptedCheck(r) THEN
            \/ \E msg \in Messages :
                    Rejected(r, Unhandled(msg), <<"allowed_file", "secure_filename", "save">>)
            \/ \E stage \in Stages, msg \in Messages :
                    Analyzed(r, analyze_malaria_pdf_raises(msg), CallsUntil(stage))
            \/ \E n \in ExtractCounts :
                    \E draws \in [1..n -> EndpointDraws] :
                        LET imgs == extract_images_from_pdf(n) IN
                        Analyzed(r, analyze_malaria_pdf(imgs, draws), InnerCalls(imgs))
        ELSE
            Rejected(r, ErrorResponse(400, "File type not allowed. Please upload a PDF file."),
                     <<"allowed_file">>)
    /\ UNCHANGED <<health, images, image_results, tpc, treq, tpos>>

Next == health_check \/ analyze_pdf

Spec == Init /\ [][Next]_vars

----------------------------------------------------------------------------
(* Properties of the endpoint, checked under Spec.  The accepted extension *)
(* is stated on the characters of the name.                                *)

Responded == response # NoResponse

ExtAccepted(f) ==
    \E i \in 1..Len(f) :
        /\ f[i] = "."
        /\ \A j \in (i + 1)..Len(f) : f[j] # "."
        /\ Len(f) = i + 3
        /\ f[i + 1] \in {"p", "P"}
        /\ f[i + 2] \in {"d", "D"}
        /\ f[i + 3] \in {"f", "F"}

Answered == response = NoResponse /\ response' # NoResponse

(* C6: a request whose filename is not empty and whose extension is not    *)
(* accepted is answered 400 with the disallowed-file-type message, and the *)
(* upload directory is left as it was: nothing is saved.                   *)
C6_DisallowedRejected ==
    [][ (Answered /\ req'.hasFile /\ req'.filename # <<>> /\ ~ExtAccepted(req'.filename)) =>
            /\ response' = [status |-> 400,
                            body |-> [error |-> "File type not allowed. Please upload a PDF file."]]
            /\ store' = store
            /\ ~Contains(calls', "save") ]_vars

(* Such a request answered, a file of an earlier run still in the directory *)
C6_Witness ==
    /\ Responded
    /\ req.hasFile
    /\ req.filename = <<"r", ".", "p", "d", "f", ".", "e", "x", "e">>
    /\ req.payload # <<>>
    /\ response.status = 400
    /\ store # EmptyDir

(* C7: an exception raised during extraction, classification or            *)
(* aggregation is answered 500 with the error 'Analysis failed: <message>';*)
(* the body has no success envelope and no results, and the exception does *)
(* not leave the endpoint.                                                 *)
C7_AnalysisFailure ==
    outcome.raised =>
        /\ response.status = 500
        /\ DOMAIN response.body = {"error"}
        /\ response.body.error = "Analysis failed: " \o outcome.msg

C7_Witness ==
    /\ outcome.raised
    /\ outcome.msg = "out of memory"
    /\ response.status = 500
    /\ Contains(calls, "analyze_image_for_malaria")

(* C8: a request with a file part and an accepted filename is, when no     *)
(* fault occurs, answered 200 with a success envelope whose results have   *)
(* images_analyzed between 1 and 5; the diagnosis is never Inconclusive.   *)
C8_SuccessEnvelope ==
    (Responded /\ req.hasFile /\ ExtAccepted(req.filename)) =>
        \/ /\ response.status = 500
           /\ outcome.raised \/ "unhandled" \in DOMAIN response.body
        \/ /\ response.status = 200
           /\ ~outcome.raised
           /\ DOMAIN response.body = {"success", "results"}
           /\ response.body.success = TRUE
           /\ response.body.results.diagnosis \in {"Positive", "Negative"}
           /\ "images_analyzed" \in DOMAIN response.body.results
           /\ response.body.results.images_analyzed \in 1..5

C8_Witness ==
    /\ Responded
    /\ req.filename = <<"r", ".", "P", "d", "F">>
    /\ response.status = 200
    /\ response.body.results.images_analyzed = 5
    /\ response.body.results.diagnosis = "Negative"

(* C10: a request whose file part has an empty filename is answered 400    *)
(* 'No file selected' before the extension is checked and before anything  *)
(* is saved; a request without a file part is answered 400 'No file part'  *)
(* before that.                                                            *)
C10_EmptyFilenameRejected ==
    [][ Answered =>
            /\ (req'.hasFile /\ req'.filename = <<>>) =>
                  /\ response' = [status |-> 400, body |-> [error |-> "No file selected"]]
                  /\ ~Contains(calls', "allowed_file")
                  /\ ~Contains(calls', "save")
                  /\ store' = store
            /\ ~req'.hasFile =>
                  /\ response' = [status |-> 400, body |-> [error |-> "No file part"]]
                  /\ calls' = <<>>
                  /\ store' = store ]_vars

C10_Witness ==
    /\ Responded
    /\ req.hasFile
    /\ req.filename = <<>>
    /\ req.payload # <<>>
    /\ response.status = 400
    /\ store # EmptyDir

----------------------------------------------------------------------------
(* RaceSpec: two requests in two workers.  file.save(filepath) opens the   *)
(* path for writing, which creates or truncates the file, copies the       *)
(* upload to it chunk by chunk at the handle's own offset, and closes it.  *)
(* Nothing orders the two workers' steps.  What follows the save in the    *)
(* handler (the analysis and the response) does not touch the directory    *)
(* and is one step.                                                        *)

Threads == {1, 2}

RaceFilenames ==
    { <<"r", ".", "p", "d", "f">>,
      <<"/", "r", ".", "p", "d", "f">>,
      <<"r", ".", "P", "d", "F">>,
      <<"r", ".", "e", "x", "e">> }

RaceRequests == { Upload(name, bytes) : name \in RaceFilenames, bytes \in Payloads }

Max(a, b) == IF a >= b THEN a ELSE b

Min(a, b) == IF a <= b THEN a ELSE b

(* write(chunk) at offset pos: a gap left by another handle's truncation   *)
(* reads as zero bytes.                                                    *)
WriteAt(content, pos, chunk) ==
    LET n == Max(Len(content), pos + Len(chunk))
    IN  [i \in 1..n |->
            IF i > pos /\ i <= pos + Len(chunk) THEN chunk[i - pos]
            ELSE IF i <= Len(content) THEN content[i]
            ELSE "0"]

NextChunk(bytes, pos) == SubSeq(bytes, pos + 1, Min(Len(bytes), pos + ChunkSize))

PathOf(t) == secure_filename(treq[t].filename)

RaceInit ==
    /\ store = EmptyDir
    /\ req = NoFilePart
    /\ response = NoResponse
    /\ calls = <<>>
    /\ health = NoResponse
    /\ images = <<>>
    /\ image_results = <<>>
    /\ outcome = NoOutcome
    /\ tpc = <<"start", "start">>
    /\ treq \in [Threads -> RaceRequests]
    /\ tpos = <<0, 0>>

RaceUnchanged == UNCHANGED <<req, response, calls, health, images, image_results, outcome, treq>>

(* The checks before the save. *)
R_Check(t) ==
    /\ tpc[t] = "start"
    /\ tpc' = [tpc EXCEPT ![t] =
                 IF ~NoFilePartCheck(treq[t]) /\ ~NoFileSelectedCheck(treq[t])
                    /\ AcceptedCheck(treq[t])
                 THEN "open" ELSE "done"]
    /\ UNCHANGED <<store, tpos>>
    /\ RaceUnchanged

(* open(dst, "wb") *)
R_Open(t) ==
    /\ tpc[t] = "open"
    /\ store' = Save(store, PathOf(t), <<>>)
    /\ tpos' = [tpos EXCEPT ![t] = 0]
    /\ tpc' = [tpc EXCEPT ![t] = "write"]
    /\ RaceUnchanged

(* copyfileobj: one chunk *)
R_Write(t) ==
    /\ tpc[t] = "write"
    /\ tpos[t] < Len(treq[t].payload)
    /\ LET chunk == NextChunk(treq[t].payload, tpos[t]) IN
        /\ store' = [store EXCEPT ![PathOf(t)] = WriteAt(@, tpos[t], chunk)]
        /\ tpos' = [tpos EXCEPT ![t] = @ + Len(chunk)]
    /\ UNCHANGED tpc
    /\ RaceUnchanged

(* the upload is exhausted: close *)
R_Close(t) ==
    /\ tpc[t] = "write"
    /\ tpos[t] = Len(treq[t].payload)
    /\ tpc' = [tpc EXCEPT ![t] = "saved"]
    /\ UNCHANGED <<store, tpos>>
    /\ RaceUnchanged

(* the analysis and the response *)
R_Respond(t) ==
    /\ tpc[t] = "saved"
    /\ tpc' = [tpc EXCEPT ![t] = "done"]
    /\ UNCHANGED <<store, tpos>>
    /\ RaceUnchanged

RaceNext ==
    \E t \in Threads :
        R_Check(t) \/ R_Open(t) \/ R_Write(t) \/ R_Close(t) \/ R_Respond(t)

RaceSpec == RaceInit /\ [][RaceNext]_vars

(* C5: when two requests whose filenames sanitize to the same name have    *)
(* both been served, the stored file holds exactly one of the two uploads. *)
C5_OnePayloadInFull ==
    (/\ tpc[1] = "done" /\ tpc[2] = "done"
     /\ AcceptedCheck(treq[1]) /\ AcceptedCheck(treq[2])
     /\ PathOf(1) = PathOf(2))
    => store[PathOf(1)] \in {treq[1].payload, treq[2].payload}

====
